---- MODULE Spec2Model ----
(***************************************************************************)
(* Model of the USPTO virtual-table cursors of alexandria3k:               *)
(*   file_xml_cache.py   FileCache (single-slot parsed-document cache)     *)
(*   data_sources/uspto.py  ZipFiles, XMLChunkCursor,                      *)
(*                          PatentsElementsCursor, PatentsCursor,          *)
(*                          PatentsIpcrCurcor                              *)
(*   csv_sources.py      CsvCursor (flat-file cursor)                      *)
(* Python values are modelled as follows: the integer None is NoneInt, a   *)
(* flag that may be None/True/False is one of the strings "None", "True",  *)
(* "False", a parsed tree is a record with an instance number (0 is None), *)
(* and a list that may be None is a record [none, items].                  *)
(***************************************************************************)
EXTENDS Integers, Sequences, FiniteSets

\* ------------------------------------------------------------- bounds
MaxContainers == 3
MaxKids == 2
MaxParses == 4
MaxCalls == 4
MaxId == 2
MaxParent == 2
MaxEntries == 2
MaxTokens == 3
MaxLines == 3
MaxShared == 2
MaxHandles == 2

\* --------------------------------------------------- program constants
\* alexandria3k.data_source index-hint bits
CONTAINER_INDEX == 1
ROWID_INDEX == 2
\* uspto.py: "This allows for 16k elements."
RESERVED_BITS == 14

\* ------------------------------------------------------ Python values
NoneInt == 0 - 99
\* the file="..." names of the fragments, one per weekly patent document
Names == <<"USD0968044", "USPP034694", "USRE049258", "US11478888",
           "US11479999">>
\* a fragment is modelled by its display name and by the number of
\* classification-ipcr elements its document holds
Chunks == [name : {Names[i] : i \in 1 .. Len(Names)}, kids : 0 .. MaxKids]
NoChunk == [name |-> "", kids |-> 0]
NoneTree == [inst |-> 0, root |-> NoChunk]
NoneList == [none |-> TRUE, items |-> <<>>]
PyInt(n) == [t |-> "int", v |-> n]
PyStr(s) == [t |-> "str", v |-> s]
Truthy(flag) == flag = "True"

\* not self.elements: None and the empty list are both falsy
NotElements(elements) == elements.none \/ Len(elements.items) = 0

\* seq[i] of Python, negative indices counting from the end
PyInRange(seq, i) == i < Len(seq) /\ i >= 0 - Len(seq)
PyGet(seq, i) == IF i >= 0 THEN seq[i + 1] ELSE seq[Len(seq) + i + 1]

\* index_number & flag, for a flag that is a power of two
HasBit(index_number, flag) == (index_number \div flag) % 2 = 1

VARIABLES
    data_source,     \* ZipFiles.unique_patent_xml_files: the container list
    cached_id,       \* FileCache.cached_id
    cached_data,     \* FileCache.cached_data
    parse_counter,   \* FileCache.parse_counter
    allocs,          \* number of trees ET.fromstring has allocated
    kind,            \* cursor class the engine drives: "none", "root", "child"
    patents,         \* the PatentsCursor (with its files_cursor)
    ipcr,            \* the PatentsIpcrCurcor wrapped around patents
    query,           \* arguments of the last Filter call, or NoQuery
    fault,           \* exception raised by the last call: "none" or its name
    out,             \* rows the engine has read since the last Filter
    calls,           \* log of direct FileCache.read calls
    pack,            \* input and result of the row-id packing
    pop,             \* position of the population driver
    zip_files,       \* the directory and the ZipFiles object built from it
    csv_cursor,      \* the flat file and the CsvCursor reading it
    shared           \* two data sources and their container cursors

vars == <<data_source, cached_id, cached_data, parse_counter, allocs, kind,
          patents, ipcr, query, fault, out, calls, pack, pop, zip_files,
          csv_cursor, shared>>

\* ------------------------------------------------------------ FileCache
Cache == [cached_id |-> cached_id, cached_data |-> cached_data,
          parse_counter |-> parse_counter, allocs |-> allocs]

\* ET.fromstring(xml_chunk): a new tree object holding the chunk's content
ETfromstring(c, xml_chunk) == [inst |-> c.allocs + 1, root |-> xml_chunk]

FileCacheRead_NoHit(c, xml_chunk, container_id) ==
    LET tree == ETfromstring(c, xml_chunk) IN
    [cache |-> [cached_id |-> container_id, cached_data |-> tree,
                parse_counter |-> c.parse_counter + 1, allocs |-> c.allocs + 1],
     ret |-> tree]

FileCacheRead_StaleId(c, xml_chunk, container_id) ==
    IF container_id = c.cached_id
    THEN [cache |-> c, ret |-> c.cached_data]
    ELSE LET tree == ETfromstring(c, xml_chunk) IN
         [cache |-> [cached_id |-> c.cached_id, cached_data |-> tree,
                     parse_counter |-> c.parse_counter + 1,
                     allocs |-> c.allocs + 1],
          ret |-> tree]

\* FileCache.read
FileCacheRead(c, xml_chunk, container_id) ==
    IF container_id = c.cached_id
    THEN [cache |-> c, ret |-> c.cached_data]
    ELSE LET tree == ETfromstring(c, xml_chunk) IN
         [cache |-> [cached_id |-> container_id, cached_data |-> tree,
                     parse_counter |-> c.parse_counter + 1,
                     allocs |-> c.allocs + 1],
          ret |-> tree]

\* ------------------------------------------------------- XMLChunkCursor
\* XMLChunkCursor.__init__
XMLChunkCursorInit ==
    [eof |-> FALSE, file_index |-> NoneInt, single_file |-> "None",
     file_read |-> "None", element_tree |-> NoneTree]

XMLChunkCursorNext_LateEof(fc, c) ==
    IF Truthy(fc.single_file) /\ Truthy(fc.file_read)
    THEN [cur |-> [fc EXCEPT !.eof = TRUE], cache |-> c, fault |-> "none"]
    ELSE IF fc.file_index = NoneInt
    THEN [cur |-> fc, cache |-> c, fault |-> "TypeError"]
    ELSE IF fc.file_index + 1 >= Len(data_source)
    THEN [cur |-> IF fc.file_index > Len(data_source)
                  THEN [fc EXCEPT !.eof = TRUE]
                  ELSE [fc EXCEPT !.file_index = @ + 1],
          cache |-> c, fault |-> "none"]
    ELSE IF ~PyInRange(data_source, fc.file_index + 1)
    THEN [cur |-> [fc EXCEPT !.file_index = fc.file_index + 1],
          cache |-> c, fault |-> "IndexError"]
    ELSE LET i == fc.file_index + 1
             r == FileCacheRead(c, PyGet(data_source, i), i)
         IN [cur |-> [fc EXCEPT !.file_index = i, !.element_tree = r.ret,
                                !.eof = FALSE, !.file_read = "True"],
             cache |-> r.cache, fault |-> "none"]

XMLChunkCursorNext_NoSingle(fc, c) ==
    IF fc.file_index = NoneInt
    THEN [cur |-> fc, cache |-> c, fault |-> "TypeError"]
    ELSE IF fc.file_index + 1 >= Len(data_source)
    THEN [cur |-> [fc EXCEPT !.eof = TRUE], cache |-> c, fault |-> "none"]
    ELSE IF ~PyInRange(data_source, fc.file_index + 1)
    THEN [cur |-> [fc EXCEPT !.file_index = fc.file_index + 1],
          cache |-> c, fault |-> "IndexError"]
    ELSE LET i == fc.file_index + 1
             r == FileCacheRead(c, PyGet(data_source, i), i)
         IN [cur |-> [fc EXCEPT !.file_index = i, !.element_tree = r.ret,
                                !.eof = FALSE, !.file_read = "True"],
             cache |-> r.cache, fault |-> "none"]

\* XMLChunkCursor.Next
XMLChunkCursorNext(fc, c) ==
    IF Truthy(fc.single_file) /\ Truthy(fc.file_read)
    THEN [cur |-> [fc EXCEPT !.eof = TRUE], cache |-> c, fault |-> "none"]
    ELSE IF fc.file_index = NoneInt
    THEN [cur |-> fc, cache |-> c, fault |-> "TypeError"]
    ELSE IF fc.file_index + 1 >= Len(data_source)
    THEN [cur |-> [fc EXCEPT !.eof = TRUE], cache |-> c, fault |-> "none"]
    ELSE IF ~PyInRange(data_source, fc.file_index + 1)
    THEN [cur |-> [fc EXCEPT !.file_index = fc.file_index + 1],
          cache |-> c, fault |-> "IndexError"]
    ELSE LET i == fc.file_index + 1
             r == FileCacheRead(c, PyGet(data_source, i), i)
         IN [cur |-> [fc EXCEPT !.file_index = i, !.element_tree = r.ret,
                                !.eof = FALSE, !.file_read = "True"],
             cache |-> r.cache, fault |-> "none"]

XMLChunkCursorSetup_SkipFirst(fc, index_number, constraint_args) ==
    IF index_number = 0
    THEN [fc EXCEPT !.file_index = 0, !.single_file = "False"]
    ELSE IF HasBit(index_number, CONTAINER_INDEX)
    THEN [fc EXCEPT !.single_file = "True", !.file_read = "False",
                    !.file_index = constraint_args[1] - 1]
    ELSE fc

\* the assignments of XMLChunkCursor.Filter that precede its call of Next
XMLChunkCursorSetup(fc, index_number, constraint_args) ==
    IF index_number = 0
    THEN [fc EXCEPT !.file_index = 0 - 1, !.single_file = "False"]
    ELSE IF HasBit(index_number, CONTAINER_INDEX)
    THEN [fc EXCEPT !.single_file = "True", !.file_read = "False",
                    !.file_index = constraint_args[1] - 1]
    ELSE fc

\* XMLChunkCursor.Filter
XMLChunkCursorFilter_NoNext(fc, c, index_number, constraint_args) ==
    [cur |-> XMLChunkCursorSetup(fc, index_number, constraint_args),
     cache |-> c, fault |-> "none"]
XMLChunkCursorFilter(fc, c, index_number, constraint_args) ==
    XMLChunkCursorNext(XMLChunkCursorSetup(fc, index_number, constraint_args), c)

\* XMLChunkCursor.Next and XMLChunkCursor.Filter of a cursor whose table's
\* data_source is the list ds
XMLChunkCursorNextOn(ds, fc, c) ==
    IF Truthy(fc.single_file) /\ Truthy(fc.file_read)
    THEN [cur |-> [fc EXCEPT !.eof = TRUE], cache |-> c, fault |-> "none"]
    ELSE IF fc.file_index = NoneInt
    THEN [cur |-> fc, cache |-> c, fault |-> "TypeError"]
    ELSE IF fc.file_index + 1 >= Len(ds)
    THEN [cur |-> [fc EXCEPT !.eof = TRUE], cache |-> c, fault |-> "none"]
    ELSE IF ~PyInRange(ds, fc.file_index + 1)
    THEN [cur |-> [fc EXCEPT !.file_index = fc.file_index + 1],
          cache |-> c, fault |-> "IndexError"]
    ELSE LET i == fc.file_index + 1
             r == FileCacheRead(c, PyGet(ds, i), i)
         IN [cur |-> [fc EXCEPT !.file_index = i, !.element_tree = r.ret,
                                !.eof = FALSE, !.file_read = "True"],
             cache |-> r.cache, fault |-> "none"]
XMLChunkCursorFilterOn(ds, fc, c, index_number, constraint_args) ==
    XMLChunkCursorNextOn(
        ds, XMLChunkCursorSetup(fc, index_number, constraint_args), c)

\* XMLChunkCursor.Close
XMLChunkCursorClose_Keep(fc) == fc
XMLChunkCursorClose(fc) == [fc EXCEPT !.element_tree = NoneTree]

\* XMLChunkCursor.Rowid
XMLChunkCursorRowid(fc) == fc.file_index

\* -------------------------------------------------------- PatentsCursor
\* PatentsCursor.__init__
PatentsCursorInit ==
    [eof |-> FALSE, item_index |-> 0 - 1, files_cursor |-> XMLChunkCursorInit]

\* PatentsCursor.Eof
PatentsCursorEof(p) == p.eof

PatentsCursorContainerId_Rowid(p) == p.item_index

\* PatentsCursor.container_id
PatentsCursorContainerId(p) == XMLChunkCursorRowid(p.files_cursor)

\* PatentsCursor.Close
PatentsCursorClose(p) ==
    [p EXCEPT !.files_cursor = XMLChunkCursorClose(@)]

\* PatentsCursor.Rowid
PatentsCursorRowid(p) == p.item_index

\* PatentsCursor.current_row_value
PatentsCursorCurrentRowValue(p) == p.files_cursor.element_tree

\* PatentsCursor.Column for the columns that need no extractor
PatentsCursorColumn(p, col) ==
    IF col = 0 - 1 THEN PyInt(PatentsCursorRowid(p))
    ELSE PyInt(XMLChunkCursorRowid(p.files_cursor))

\* PatentsCursor.Filter
PatentsCursorFilter_StaleEof(p, c, index_number, constraint_args) ==
    LET r == XMLChunkCursorFilter(p.files_cursor, c, index_number,
                                  constraint_args)
    IN  [cur |-> [p EXCEPT !.files_cursor = r.cur,
                           !.item_index =
                               IF r.fault = "none"
                                  /\ ~HasBit(index_number, ROWID_INDEX)
                               THEN 0 ELSE @],
         cache |-> r.cache, fault |-> r.fault]
PatentsCursorFilter(p, c, index_number, constraint_args) ==
    LET r == XMLChunkCursorFilter(p.files_cursor, c, index_number, constraint_args)
        p1 == [p EXCEPT !.files_cursor = r.cur]
    IN IF r.fault # "none"
       THEN [cur |-> p1, cache |-> r.cache, fault |-> r.fault]
       ELSE [cur |-> [p1 EXCEPT !.eof = r.cur.eof,
                                !.item_index =
                                    IF HasBit(index_number, ROWID_INDEX)
                                    THEN constraint_args[2] ELSE 0],
             cache |-> r.cache, fault |-> "none"]

\* PatentsCursor.Next
PatentsCursorNext(p, c) ==
    LET r == XMLChunkCursorNext(p.files_cursor, c)
        p1 == [p EXCEPT !.item_index = 0, !.files_cursor = r.cur]
    IN IF r.fault # "none"
       THEN [cur |-> p1, cache |-> r.cache, fault |-> r.fault]
       ELSE [cur |-> [p1 EXCEPT !.eof = r.cur.eof],
             cache |-> r.cache, fault |-> "none"]

\* ------------------------------------- PatentsElementsCursor and its child
\* ElementsCursor.__init__ (alexandria3k.data_source)
ElementsCursorInit ==
    [eof |-> FALSE, elements |-> NoneList, element_index |-> 0 - 1]

\* all_getter(".../classification-ipcr"): tree.findall, in document order
ExtractMultiple(tree) ==
    [none |-> FALSE,
     items |-> [j \in 1 .. tree.root.kids |-> [of |-> tree.root, pos |-> j - 1]]]

ExtractElements_KeepIndex(ch, tree) ==
    [ch EXCEPT !.elements = ExtractMultiple(tree)]

\* PatentsElementsCursor.Next: the extraction of a parent row's elements
ExtractElements(ch, tree) ==
    [ch EXCEPT !.elements = ExtractMultiple(tree), !.element_index = 0 - 1]

MoreElements_OffByOne(ch) ==
    ch.element_index + 2 < Len(ch.elements.items)

\* PatentsElementsCursor.Next: self.element_index + 1 < len(self.elements)
MoreElements(ch) ==
    ch.element_index + 1 < Len(ch.elements.items)

RECURSIVE PatentsElementsCursorNext(_, _, _)
PatentsElementsCursorNext_NoLoop(ch, p, c) ==
    IF PatentsCursorEof(p)
    THEN [cur |-> [ch EXCEPT !.eof = TRUE], parent |-> p, cache |-> c,
          fault |-> "none"]
    ELSE IF NotElements(ch.elements) /\ PatentsCursorCurrentRowValue(p) = NoneTree
    THEN [cur |-> ch, parent |-> p, cache |-> c, fault |-> "AttributeError"]
    ELSE
    LET ch1 == IF NotElements(ch.elements)
               THEN ExtractElements(ch, PatentsCursorCurrentRowValue(p))
               ELSE ch
    IN IF (~NotElements(ch1.elements)) /\ MoreElements(ch1)
       THEN [cur |-> [ch1 EXCEPT !.element_index = ch1.element_index + 1,
                                 !.eof = FALSE],
             parent |-> p, cache |-> c, fault |-> "none"]
       ELSE LET r == PatentsCursorNext(p, c) IN
            IF r.fault # "none" \/ ~NotElements(ch1.elements)
            THEN [cur |-> ch1, parent |-> r.cur, cache |-> r.cache,
                  fault |-> r.fault]
            ELSE PatentsElementsCursorNext([ch1 EXCEPT !.elements = NoneList],
                                           r.cur, r.cache)

\* PatentsElementsCursor.Next
PatentsElementsCursorNext(ch, p, c) ==
    IF PatentsCursorEof(p)
    THEN [cur |-> [ch EXCEPT !.eof = TRUE], parent |-> p, cache |-> c,
          fault |-> "none"]
    ELSE IF NotElements(ch.elements) /\ PatentsCursorCurrentRowValue(p) = NoneTree
    THEN [cur |-> ch, parent |-> p, cache |-> c, fault |-> "AttributeError"]
    ELSE
    LET ch1 == IF NotElements(ch.elements)
               THEN ExtractElements(ch, PatentsCursorCurrentRowValue(p))
               ELSE ch
    IN IF (~NotElements(ch1.elements)) /\ MoreElements(ch1)
       THEN [cur |-> [ch1 EXCEPT !.element_index = ch1.element_index + 1,
                                 !.eof = FALSE],
             parent |-> p, cache |-> c, fault |-> "none"]
       ELSE LET r == PatentsCursorNext(p, c) IN
            IF r.fault # "none"
            THEN [cur |-> ch1, parent |-> r.cur, cache |-> r.cache,
                  fault |-> r.fault]
            ELSE PatentsElementsCursorNext([ch1 EXCEPT !.elements = NoneList],
                                           r.cur, r.cache)

\* PatentsElementsCursor.Next: the number of times one call of it calls
\* self.parent_cursor.Next()
RECURSIVE ParentAdvances(_, _, _)
ParentAdvances(ch, p, c) ==
    IF PatentsCursorEof(p) THEN 0
    ELSE IF NotElements(ch.elements) /\ PatentsCursorCurrentRowValue(p) = NoneTree
    THEN 0
    ELSE
    LET ch1 == IF NotElements(ch.elements)
               THEN ExtractElements(ch, PatentsCursorCurrentRowValue(p))
               ELSE ch
    IN IF (~NotElements(ch1.elements)) /\ MoreElements(ch1)
       THEN 0
       ELSE LET r == PatentsCursorNext(p, c) IN
            IF r.fault # "none" THEN 1
            ELSE 1 + ParentAdvances([ch1 EXCEPT !.elements = NoneList],
                                    r.cur, r.cache)

\* ElementsCursor.Filter (alexandria3k.data_source)
ElementsCursorFilter(ch, p, c, index_number, constraint_args) ==
    LET r == PatentsCursorFilter(p, c, index_number, constraint_args) IN
    IF r.fault # "none"
    THEN [cur |-> ch, parent |-> r.cur, cache |-> r.cache, fault |-> r.fault]
    ELSE PatentsElementsCursorNext([ch EXCEPT !.elements = NoneList],
                                   r.cur, r.cache)

\* ElementsCursor.current_row_value (alexandria3k.data_source)
ElementsCursorCurrentRowValue(ch) == ch.elements.items[ch.element_index + 1]

\* ----------------------------------------------------- row-id packing
RECURSIVE BitOr(_, _)
\* a | b on non-negative integers
BitOr(a, b) ==
    IF a = 0 THEN b
    ELSE IF b = 0 THEN a
    ELSE (IF a % 2 = 1 \/ b % 2 = 1 THEN 1 ELSE 0)
         + 2 * BitOr(a \div 2, b \div 2)

RECURSIVE BitAnd(_, _)
\* a & b on non-negative integers
BitAnd(a, b) ==
    IF a = 0 \/ b = 0 THEN 0
    ELSE (IF a % 2 = 1 /\ b % 2 = 1 THEN 1 ELSE 0)
         + 2 * BitAnd(a \div 2, b \div 2)

\* a << n and a >> n
ShiftLeft(a, n) == a * 2 ^ n
ShiftRight(a, n) == a \div 2 ^ n

PackRowid_Narrow(parent_rowid, element_index) ==
    BitOr(ShiftLeft(parent_rowid, RESERVED_BITS - 1), element_index)

\* (self.parent_cursor.Rowid() << 14) | self.element_index
PackRowid(parent_rowid, element_index) ==
    BitOr(ShiftLeft(parent_rowid, RESERVED_BITS), element_index)

\* PatentsIpcrCurcor.Rowid
PatentsIpcrCurcorRowid(ch, p) ==
    PackRowid(PatentsCursorRowid(p), ch.element_index)

\* PatentsIpcrCurcor.Column(2): patent_id
PatentsIpcrCurcorColumn2(ch, p) == PyInt(PatentsCursorContainerId(p))

\* ZipFiles.get_container_name
GetContainerName(fid) == PyStr(PyGet(data_source, fid).name)

\* ------------------------------------------------------------- ZipFiles
\* The text of an archive's XML member is a sequence of tokens: the
\* boundary marker, a patent document carrying a file="..." attribute at
\* its start (the token is the attribute's value), or a run of white space.
XML_DELIMITER == "<?xml?>"
Blank == " "
DocNames == {Names[1], Names[2]}
Tokens == {XML_DELIMITER, Blank} \cup DocNames
Texts == UNION {[1 .. n -> Tokens] : n \in 0 .. MaxTokens}
NoMatch == ""

\* xml_content.split(XML_DELIMITER): the fragments between the markers,
\* the empty ones included
RECURSIVE Split(_)
Split(text) ==
    IF text = <<>> THEN <<<<>>>>
    ELSE IF Head(text) = XML_DELIMITER THEN <<<<>>>> \o Split(Tail(text))
    ELSE LET rest == Split(Tail(text))
         IN  <<<<Head(text)>> \o Head(rest)>> \o Tail(rest)

\* re.search(r'file="([^"]+)"', xml_info[:200]): white space is short, a
\* document is longer than 200 characters, so the search sees the leading
\* white space and the first document of the fragment
RECURSIVE ReSearch(_)
ReSearch(xml_info) ==
    IF xml_info = <<>> THEN NoMatch
    ELSE IF Head(xml_info) = Blank THEN ReSearch(Tail(xml_info))
    ELSE Head(xml_info)

\* ZipFiles.__init__, first loop: the paths of the directory's regular
\* files that the sampling predicate accepts, in listing order.  A path is
\* the entry's position in the listing, dir[i] is os.path.isfile(path)
\* and sample is the set of paths for which sample_container is true.
ListDirectory_NoSample(dir, sample) ==
    SelectSeq([i \in 1 .. Len(dir) |-> i], LAMBDA path : dir[path])
ListDirectory(dir, sample) ==
    SelectSeq([i \in 1 .. Len(dir) |-> i],
              LAMBDA path : dir[path] /\ path \in sample)

\* ZipFiles.__init__, the loop over the fragments of one archive; a
\* container is recorded as the slice [src, at] of the archive's text
RECURSIVE ReadFragments(_, _, _, _)
ReadFragments_SkipUnnamed(z, path, xml_files, i) ==
    IF i > Len(xml_files) THEN z
    ELSE IF Len(xml_files[i]) = 0 \/ ReSearch(xml_files[i]) = NoMatch
    THEN ReadFragments(z, path, xml_files, i + 1)
    ELSE ReadFragments(
             [z EXCEPT !.patent_file_name = Append(@, ReSearch(xml_files[i])),
                       !.unique_patent_xml_files =
                           Append(@, [src |-> path, at |-> i - 1])],
             path, xml_files, i + 1)
ReadFragments(z, path, xml_files, i) ==
    IF i > Len(xml_files) THEN z
    ELSE IF Len(xml_files[i]) = 0
    THEN ReadFragments(z, path, xml_files, i + 1)
    ELSE IF ReSearch(xml_files[i]) = NoMatch
    THEN [z EXCEPT !.fault = "AttributeError"]
    ELSE ReadFragments(
             [z EXCEPT !.patent_file_name = Append(@, ReSearch(xml_files[i])),
                       !.unique_patent_xml_files =
                           Append(@, [src |-> path, at |-> i - 1])],
             path, xml_files, i + 1)

\* ZipFiles.__init__, one iteration of the loop over file_path: members is
\* the number of names in the archive that end with ".xml"
ReadArchive_FirstFragment(z, path, members, text) ==
    IF members # 1 THEN [z EXCEPT !.fault = "ValueError"]
    ELSE ReadFragments(z, path, <<Head(Split(text))>>, 1)
ReadArchive(z, path, members, text) ==
    IF members # 1 THEN [z EXCEPT !.fault = "ValueError"]
    ELSE ReadFragments(z, path, Split(text), 1)

\* number of non-empty fragments of a text, counted on the text itself
NonEmptyFragments(text) ==
    Cardinality({i \in 1 .. Len(text) :
                    /\ text[i] # XML_DELIMITER
                    /\ (i = 1 \/ text[i - 1] = XML_DELIMITER)})

\* an archive the discovery cannot accept: not exactly one XML member, or
\* a non-empty fragment without the attribute in its first 200 characters
BadArchive(members, text) ==
    \/ members # 1
    \/ \E i \in 1 .. Len(text) :
           /\ text[i] # XML_DELIMITER
           /\ (i = 1 \/ text[i - 1] = XML_DELIMITER)
           /\ \A j \in i .. Len(text) :
                  (\A h \in i .. j : text[h] # XML_DELIMITER)
                      => text[j] = Blank

NoZipFiles ==
    [dir |-> <<>>, sample |-> {}, phase |-> "off", file_path |-> <<>>,
     read |-> 0, unique_patent_xml_files |-> <<>>, patent_file_name |-> <<>>,
     fault |-> "none", fragments |-> 0, bad |-> FALSE]


\* ------------------------------------------------------------ CsvCursor
\* A flat file is the sequence of records csv.reader yields for its lines:
\* a record is the list of a line's fields, the empty list for a blank line.
Records == {<<>>, <<"10.1000">>, <<"10.2000">>}
CsvFiles == UNION {[1 .. n -> Records] : n \in 0 .. MaxLines}

\* data_from_uri_provider and csv.reader: a reader at the start of the file
DataFromUriProvider(file) == [none |-> FALSE, at |-> 0]
NoReader == [none |-> TRUE, at |-> 0]

\* the input handles a cursor has opened, in the order it opened them, each
\* "open" or "closed"; a handle is named by its position in this list.
\* data_from_uri_provider returns a new open handle
OpenHandle(handles) == Append(handles, "open")
\* raw_input.close()
CloseHandle(handles, raw_input) == [handles EXCEPT ![raw_input] = "closed"]
OpenHandles(handles) == {h \in 1 .. Len(handles) : handles[h] = "open"}

\* next(self.reader, None)
ReaderNext(file, reader) ==
    IF reader.at < Len(file)
    THEN [value |-> [none |-> FALSE, items |-> file[reader.at + 1]],
          reader |-> [reader EXCEPT !.at = @ + 1]]
    ELSE [value |-> NoneList, reader |-> reader]

\* CsvCursor.__init__
CsvCursorInit ==
    [eof |-> FALSE, item_index |-> 0 - 1, row_value |-> NoneList,
     raw_input |-> NoneInt, reader |-> NoReader]

\* CsvCursor.Next
CsvCursorNext_CountAll(cur, file) ==
    LET r == ReaderNext(file, cur.reader)
    IN  [cur EXCEPT !.row_value = r.value, !.reader = r.reader,
                    !.eof = @ \/ NotElements(r.value),
                    !.item_index = @ + 1]
CsvCursorNext(cur, file) ==
    LET r == ReaderNext(file, cur.reader)
        c == [cur EXCEPT !.row_value = r.value, !.reader = r.reader]
    IN  IF NotElements(c.row_value)
        THEN [c EXCEPT !.eof = TRUE]
        ELSE [c EXCEPT !.item_index = @ + 1]

\* CsvCursor.Filter; raw_input is the handle data_from_uri_provider returned
CsvCursorFilter(cur, file, raw_input) ==
    LET opened == DataFromUriProvider(file)
        header == ReaderNext(file, opened)
    IN  CsvCursorNext([cur EXCEPT !.eof = FALSE, !.item_index = 0 - 1,
                                  !.raw_input = raw_input,
                                  !.reader = header.reader], file)

\* CsvCursor.Close: self.raw_input.close(), an AttributeError when raw_input
\* is None; closing a closed handle is allowed
CsvCursorClose(cur, handles) ==
    IF cur.raw_input = NoneInt
    THEN [handles |-> handles, fault |-> "AttributeError"]
    ELSE [handles |-> CloseHandle(handles, cur.raw_input), fault |-> "none"]

\* CsvCursor.Rowid
CsvCursorRowid(cur) == cur.item_index

NoCsvCursor ==
    [file |-> <<>>, cur |-> CsvCursorInit, seen |-> <<>>, handles |-> <<>>]

\* ------------------------------------------------------ two data sources
NoShared ==
    [sources |-> <<<<>>, <<>>>>,
     cursors |-> <<XMLChunkCursorInit, XMLChunkCursorInit>>,
     positioned |-> <<FALSE, FALSE>>]

\* =================================================== the engine's calls
NoQuery == [index_number |-> 0 - 1, constraint_args |-> <<>>]
NoPack == [a |-> <<0, 0>>, b |-> <<0, 0>>, ra |-> 0 - 1, rb |-> 0 - 1,
           done |-> FALSE]
NoPop == [pc |-> "off", container |-> 0]

\* the container lists a discovery can produce
DataSources ==
    UNION {{ds \in [1 .. n -> Chunks] : \A i \in 1 .. n : ds[i].name = Names[i]}
           : n \in 0 .. MaxContainers}

\* the index hints and constraint values the engine can pass to Filter
IndexNumbers ==
    {0, CONTAINER_INDEX, ROWID_INDEX, CONTAINER_INDEX + ROWID_INDEX}
Pins == (0 - 1) .. MaxContainers
RowidArgs == {1}
ConstraintArgs(index_number) ==
    IF index_number = 0 THEN {<<>>}
    ELSE IF index_number = CONTAINER_INDEX THEN {<<k>> : k \in Pins}
    ELSE IF index_number = ROWID_INDEX THEN {<<0, r>> : r \in RowidArgs}
    ELSE {<<k, r>> : k \in Pins, r \in RowidArgs}

\* the state after the module is imported and the data source is opened
InitCommon ==
    /\ cached_id = NoneInt
    /\ cached_data = NoneTree
    /\ parse_counter = 0
    /\ allocs = 0
    /\ kind = "none"
    /\ patents = PatentsCursorInit
    /\ ipcr = ElementsCursorInit
    /\ query = NoQuery
    /\ fault = "none"
    /\ out = <<>>
    /\ calls = <<>>

Init ==
    /\ data_source \in DataSources
    /\ InitCommon
    /\ shared = NoShared
    /\ zip_files = NoZipFiles
    /\ csv_cursor = NoCsvCursor
    /\ pack = NoPack
    /\ pop = NoPop

SetCache(c) ==
    /\ cached_id' = c.cached_id
    /\ cached_data' = c.cached_data
    /\ parse_counter' = c.parse_counter
    /\ allocs' = c.allocs

\* what the engine reads of the row a root cursor is on
RootRow(p) ==
    [rowid |-> PatentsCursorRowid(p),
     cid |-> PatentsCursorColumn(p, 1),
     idx |-> 0 - 1,
     doc |-> PatentsCursorCurrentRowValue(p).root,
     pos |-> 0 - 1]

\* what the engine reads of the row a child cursor is on
ChildRow(ch, p) ==
    [rowid |-> PatentsIpcrCurcorRowid(ch, p),
     cid |-> PatentsIpcrCurcorColumn2(ch, p),
     idx |-> ch.element_index,
     doc |-> ElementsCursorCurrentRowValue(ch).of,
     pos |-> ElementsCursorCurrentRowValue(ch).pos]

\* the table creates a cursor of its cursor_class (a PatentsIpcrCurcor is
\* given a new PatentsCursor as its parent)
DoOpen(k) ==
    /\ kind' = k
    /\ patents' = PatentsCursorInit
    /\ ipcr' = ElementsCursorInit
    /\ query' = NoQuery
    /\ fault' = "none"
    /\ out' = <<>>
    /\ UNCHANGED <<zip_files, csv_cursor, data_source, cached_id, cached_data,
                   parse_counter, allocs, calls, pack, shared>>

DoRootFilter(index_number, constraint_args) ==
    /\ kind = "root"
    /\ fault = "none"
    /\ LET r == PatentsCursorFilter(patents, Cache, index_number, constraint_args)
       IN /\ r.cache.parse_counter <= MaxParses
          /\ patents' = r.cur
          /\ SetCache(r.cache)
          /\ fault' = r.fault
          /\ out' = IF r.fault = "none" /\ ~PatentsCursorEof(r.cur)
                    THEN <<RootRow(r.cur)>> ELSE <<>>
    /\ query' = [index_number |-> index_number,
                 constraint_args |-> constraint_args]
    /\ UNCHANGED <<zip_files, csv_cursor, data_source, kind, ipcr, calls,
                   pack, shared>>

DoRootNext ==
    /\ kind = "root"
    /\ fault = "none"
    /\ query # NoQuery
    /\ LET r == PatentsCursorNext(patents, Cache)
       IN /\ r.cache.parse_counter <= MaxParses
          /\ patents' = r.cur
          /\ SetCache(r.cache)
          /\ fault' = r.fault
          /\ out' = IF r.fault = "none" /\ ~PatentsCursorEof(r.cur)
                    THEN Append(out, RootRow(r.cur)) ELSE out
    /\ UNCHANGED <<zip_files, csv_cursor, data_source, kind, ipcr, query,
                   calls, pack, shared>>

DoChildFilter(index_number, constraint_args) ==
    /\ kind = "child"
    /\ fault = "none"
    /\ LET r == ElementsCursorFilter(ipcr, patents, Cache, index_number,
                                     constraint_args)
       IN /\ r.cache.parse_counter <= MaxParses
          /\ ipcr' = r.cur
          /\ patents' = r.parent
          /\ SetCache(r.cache)
          /\ fault' = r.fault
          /\ out' = IF r.fault = "none" /\ ~r.cur.eof
                    THEN <<ChildRow(r.cur, r.parent)>> ELSE <<>>
    /\ query' = [index_number |-> index_number,
                 constraint_args |-> constraint_args]
    /\ UNCHANGED <<zip_files, csv_cursor, data_source, kind, calls, pack,
                   shared>>

DoChildNext ==
    /\ kind = "child"
    /\ fault = "none"
    /\ query # NoQuery
    /\ LET r == PatentsElementsCursorNext(ipcr, patents, Cache)
       IN /\ r.cache.parse_counter <= MaxParses
          /\ ipcr' = r.cur
          /\ patents' = r.parent
          /\ SetCache(r.cache)
          /\ fault' = r.fault
          /\ out' = IF r.fault = "none" /\ ~r.cur.eof
                    THEN Append(out, ChildRow(r.cur, r.parent)) ELSE out
    /\ UNCHANGED <<zip_files, csv_cursor, data_source, kind, query, calls,
                   pack, shared>>

\* the engine's calls on the cursor of one table
Open(k) == DoOpen(k) /\ UNCHANGED pop
RootFilter(index_number, constraint_args) ==
    DoRootFilter(index_number, constraint_args) /\ UNCHANGED pop
RootNext == DoRootNext /\ UNCHANGED pop
ChildFilter(index_number, constraint_args) ==
    DoChildFilter(index_number, constraint_args) /\ UNCHANGED pop
ChildNext == DoChildNext /\ UNCHANGED pop

Next ==
    \/ \E k \in {"root", "child"} : Open(k)
    \/ \E n \in IndexNumbers : \E a \in ConstraintArgs(n) : RootFilter(n, a)
    \/ RootNext
    \/ \E n \in IndexNumbers : \E a \in ConstraintArgs(n) : ChildFilter(n, a)
    \/ ChildNext

Spec == Init /\ [][Next]_vars

\* ============================================ direct use of the cache
\* the chunks and container ids handed to FileCache.read
CacheChunks == {c \in Chunks : c.name \in {Names[1], Names[2]} /\ c.kids = 0}
CacheIds == 0 .. MaxId

InitCache ==
    /\ data_source = <<>>
    /\ InitCommon
    /\ shared = NoShared
    /\ zip_files = NoZipFiles
    /\ csv_cursor = NoCsvCursor
    /\ pack = NoPack
    /\ pop = NoPop

\* one call get_file_cache().read(xml_chunk, container_id); the log keeps the
\* arguments, the returned tree and the cache's fields after the call
CacheRead(xml_chunk, container_id) ==
    /\ Len(calls) < MaxCalls
    /\ LET r == FileCacheRead(Cache, xml_chunk, container_id)
       IN /\ SetCache(r.cache)
          /\ calls' = Append(calls,
                [id |-> container_id, chunk |-> xml_chunk, ret |-> r.ret,
                 counter |-> r.cache.parse_counter,
                 cached_id |-> r.cache.cached_id,
                 cached_data |-> r.cache.cached_data])
    /\ UNCHANGED <<zip_files, csv_cursor, data_source, kind, patents, ipcr,
                   query, fault, out, pack, pop, shared>>

NextCache == \E ch \in CacheChunks : \E id \in CacheIds : CacheRead(ch, id)

CacheSpec == InitCache /\ [][NextCache]_vars

\* C1: in any sequence of FileCache.read calls, a call whose container id
\* equals the id of the call just before it returns the very tree that call
\* returned and leaves the parse counter alone; any other call (the first one
\* included) parses its own chunk into a new tree, raises the parse counter
\* by exactly one and leaves its id and that tree in the cache.
C1_CacheCorrectness ==
    \A n \in 1 .. Len(calls) :
        LET cur == calls[n]
            before == IF n = 1 THEN 0 ELSE calls[n - 1].counter
        IN IF n > 1 /\ cur.id = calls[n - 1].id
           THEN /\ cur.ret = calls[n - 1].ret
                /\ cur.counter = before
           ELSE /\ cur.counter = before + 1
                /\ cur.ret.root = cur.chunk
                /\ \A m \in 1 .. n - 1 : calls[m].ret.inst # cur.ret.inst
                /\ cur.cached_id = cur.id
                /\ cur.cached_data = cur.ret

\* a hit on a different chunk under the same id, followed by a miss
C1_Witness ==
    /\ Len(calls) >= 3
    /\ calls[2].id = calls[1].id
    /\ calls[2].chunk # calls[1].chunk
    /\ calls[3].id # calls[2].id
    /\ parse_counter = 2

\* ================================================= the cursors' claims
N == Len(data_source)

\* the position in the container list of the container a document was
\* parsed from (the containers' names differ, so there is exactly one)
OrdinalOf(doc) == CHOOSE i \in 0 .. N - 1 : data_source[i + 1] = doc
IsContainer(doc) == \E i \in 0 .. N - 1 : data_source[i + 1] = doc

FullScan == query.index_number = 0
\* the query pins the container with index k of the list
Pinned(k) ==
    /\ query # NoQuery
    /\ HasBit(query.index_number, CONTAINER_INDEX)
    /\ query.constraint_args[1] = k
    /\ 0 <= k /\ k < N

\* C2: a root cursor positioned with the container-index hint and a pinned
\* index k of the list has its container cursor on container k, with that
\* container's parsed document, and has yielded that container and no other;
\* every advance that follows leaves the container cursor exhausted, still
\* with that one container yielded, whatever the length of the list.
C2_State ==
    \A k \in 0 .. N - 1 :
        (kind = "root" /\ fault = "none" /\ Pinned(k)) =>
            /\ Len(out) = 1
            /\ out[1].doc = data_source[k + 1]
            /\ out[1].cid = PyInt(k)
            /\ ~patents.files_cursor.eof =>
                   /\ XMLChunkCursorRowid(patents.files_cursor) = k
                   /\ patents.files_cursor.element_tree.root = data_source[k + 1]
C2_Step ==
    (RootNext /\ \E k \in 0 .. N - 1 : Pinned(k)) =>
        /\ patents'.files_cursor.eof
        /\ out' = out
\* C2: the pinned container, alone, is yielded (C2_State), and the advance
\* after it exhausts the container cursor (C2_Step).
C2_SingleContainerPositioning == []C2_State /\ [][C2_Step]_vars

\* container 1 of three was pinned, yielded, and the cursor is exhausted
C2_Witness ==
    /\ kind = "root" /\ fault = "none" /\ Pinned(1) /\ N = 3
    /\ patents.files_cursor.eof
    /\ Len(out) = 1 /\ out[1].doc = data_source[2]

\* C3: after a position with index hint 0 the root cursor's container cursor
\* is on container 0, or exhausted when the list is empty; the containers it
\* has yielded are 0, 1, ... in list order, each once, it is exhausted only
\* after all N, and this holds for every scan, whatever ran before it.
C3_FullScanOrder ==
    (kind = "root" /\ fault = "none" /\ FullScan) =>
        /\ Len(out) <= N
        /\ \A i \in 1 .. Len(out) :
               /\ out[i].cid = PyInt(i - 1)
               /\ out[i].doc = data_source[i]
        /\ ~patents.files_cursor.eof =>
               /\ Len(out) >= 1
               /\ XMLChunkCursorRowid(patents.files_cursor) = Len(out) - 1
               /\ patents.files_cursor.element_tree.root = data_source[Len(out)]
        /\ patents.files_cursor.eof => Len(out) = N

\* a second full scan of at least two containers has reached its end
C3_Witness ==
    /\ kind = "root" /\ fault = "none" /\ FullScan
    /\ patents.files_cursor.eof
    /\ Len(out) = N /\ N >= 2
    /\ parse_counter > N

RECURSIVE ChildPairs(_)
\* the pairs <<container, element>> of the first n containers, in order
ChildPairs(n) ==
    IF n = 0 THEN <<>>
    ELSE ChildPairs(n - 1)
         \o [j \in 1 .. data_source[n].kids |-> <<n - 1, j - 1>>]

\* C4: a full scan of the root cursor has exposed, when it ends, exactly N
\* rows, the i-th of container i; a full scan of the child cursor exposes
\* the pairs (container i, element j), j = 0..c_i-1, in increasing i and
\* within i increasing j, and when it ends it has exposed all of them, the
\* sum of the c_i rows.
C4_RowCounts ==
    /\ (kind = "root" /\ fault = "none" /\ FullScan /\ patents.eof) =>
           /\ Len(out) = N
           /\ \A i \in 1 .. N : out[i].doc = data_source[i]
    /\ (kind = "child" /\ fault = "none" /\ FullScan) =>
           /\ Len(out) <= Len(ChildPairs(N))
           /\ \A i \in 1 .. Len(out) :
                  /\ <<OrdinalOf(out[i].doc), out[i].pos>> = ChildPairs(N)[i]
                  /\ <<out[i].cid.v, out[i].idx>> = ChildPairs(N)[i]
                  /\ IsContainer(out[i].doc)
           /\ ipcr.eof => Len(out) = Len(ChildPairs(N))

\* a full child scan over three containers with 2, 0 and 1 children ended
C4_Witness ==
    /\ kind = "child" /\ fault = "none" /\ FullScan /\ ipcr.eof
    /\ N = 3
    /\ data_source[1].kids = 2 /\ data_source[2].kids = 0
    /\ data_source[3].kids = 1
    /\ Len(out) = 3

\* C5: no row of the child cursor comes from a parent row whose element
\* list is empty, and the first row exposed for each parent row has element
\* index 0 and is that parent's first element.
C5_ChildSkip ==
    (kind = "child" /\ fault = "none") =>
        \A i \in 1 .. Len(out) :
            /\ IsContainer(out[i].doc)
            /\ out[i].doc.kids > 0
            /\ out[i].idx = out[i].pos
            /\ (i = 1 \/ out[i - 1].doc # out[i].doc) => out[i].idx = 0
            /\ (i > 1 /\ out[i - 1].doc = out[i].doc) =>
                   out[i].idx = out[i - 1].idx + 1

\* in a full scan, containers 0 and 2 have children and container 1 has none:
\* the row after container 0's last is container 2's element 0
C5_Witness ==
    /\ kind = "child" /\ fault = "none" /\ FullScan
    /\ N = 3 /\ data_source[2].kids = 0
    /\ Len(out) >= 2
    /\ \E i \in 2 .. Len(out) :
           /\ out[i - 1].doc = data_source[1]
           /\ out[i].doc = data_source[3]
           /\ out[i].idx = 0

\* ===================================== population by partitioned access
\* DataSource.populate (alexandria3k.data_source): for each container of
\* get_container_iterator(), each table in turn (the root table, then its
\* child) is read through a new cursor positioned on that container
InitPopulate ==
    /\ data_source \in DataSources
    /\ InitCommon
    /\ shared = NoShared
    /\ zip_files = NoZipFiles
    /\ csv_cursor = NoCsvCursor
    /\ pack = NoPack
    /\ pop = [pc |-> IF Len(data_source) = 0 THEN "done" ELSE "open_root",
              container |-> 0]

PopOpenRoot ==
    /\ pop.pc = "open_root"
    /\ DoOpen("root")
    /\ pop' = [pop EXCEPT !.pc = "filter_root"]

PopFilterRoot ==
    /\ pop.pc = "filter_root"
    /\ DoRootFilter(CONTAINER_INDEX, <<pop.container>>)
    /\ pop' = [pop EXCEPT !.pc = "read_root"]

PopNextRoot ==
    /\ pop.pc = "read_root"
    /\ ~PatentsCursorEof(patents)
    /\ DoRootNext
    /\ UNCHANGED pop

PopOpenChild ==
    /\ pop.pc = "read_root"
    /\ fault = "none"
    /\ PatentsCursorEof(patents)
    /\ DoOpen("child")
    /\ pop' = [pop EXCEPT !.pc = "filter_child"]

PopFilterChild ==
    /\ pop.pc = "filter_child"
    /\ DoChildFilter(CONTAINER_INDEX, <<pop.container>>)
    /\ pop' = [pop EXCEPT !.pc = "read_child"]

PopNextChild ==
    /\ pop.pc = "read_child"
    /\ ~ipcr.eof
    /\ DoChildNext
    /\ UNCHANGED pop

PopNextContainer ==
    /\ pop.pc = "read_child"
    /\ fault = "none"
    /\ ipcr.eof
    /\ pop' = IF pop.container + 1 < Len(data_source)
              THEN [pc |-> "open_root", container |-> pop.container + 1]
              ELSE [pop EXCEPT !.pc = "done"]
    /\ UNCHANGED <<zip_files, csv_cursor, data_source, cached_id, cached_data,
                   parse_counter, allocs, kind, patents, ipcr, query, fault,
                   out, calls, pack, shared>>

NextPopulate ==
    \/ PopOpenRoot
    \/ PopFilterRoot
    \/ PopNextRoot
    \/ PopOpenChild
    \/ PopFilterChild
    \/ PopNextChild
    \/ PopNextContainer

PopulateSpec == InitPopulate /\ [][NextPopulate]_vars

\* C6: from an empty cache and a parse counter of 0, a population that reads,
\* for each container in list order, the root table and then the child table
\* through cursors pinned to that container has parsed container i exactly
\* once when it is reading container i (the counter is i + 1 and the cache
\* holds container i), and ends with the parse counter equal to N.
C6_ParseCounterAfterPopulation ==
    /\ fault = "none"
    /\ pop.pc \in {"read_root", "filter_child", "read_child"} =>
           /\ parse_counter = pop.container + 1
           /\ cached_id = pop.container
           /\ cached_data.root = data_source[pop.container + 1]
    /\ pop.pc = "done" =>
           /\ parse_counter = Len(data_source)
           /\ allocs = Len(data_source)

\* a population of three containers, the second without children, is done
C6_Witness ==
    /\ pop.pc = "done"
    /\ Len(data_source) = 3
    /\ data_source[1].kids = 2 /\ data_source[2].kids = 0
    /\ parse_counter = 3

\* ======================================================== row identifiers
\* C7: every row the root cursor exposes has as its Rowid() the ordinal
\* index of the container the row comes from.
C7_RootRowidIsContainerIndex ==
    (kind = "root" /\ fault = "none" /\ FullScan) =>
        \A i \in 1 .. Len(out) : out[i].rowid = OrdinalOf(out[i].doc)

\* C8: the rows a child cursor exposes during one scan have pairwise
\* different Rowid()s, and a row's Rowid() shifted right by the reserved bits
\* is the ordinal index of the container of its parent row.
C8_ChildRowidsUnique ==
    (kind = "child" /\ fault = "none" /\ FullScan) =>
        /\ \A i, j \in 1 .. Len(out) : i # j => out[i].rowid # out[j].rowid
        /\ \A i \in 1 .. Len(out) :
               ShiftRight(out[i].rowid, RESERVED_BITS) = OrdinalOf(out[i].doc)

\* C10 as claimed: the foreign-key column of every child row is the display
\* name of the container of its parent row.
C10_ForeignKeyIsDisplayName ==
    (kind = "child" /\ fault = "none") =>
        \A i \in 1 .. Len(out) : out[i].cid = PyStr(out[i].doc.name)

\* C10 as amended: the foreign-key column of every child row is an integer,
\* the container index the parent cursor is on, and get_container_name of
\* that index is the display name of the container the row's element comes
\* from.
C10_ForeignKeyIsContainerIndex ==
    (kind = "child" /\ fault = "none") =>
        /\ \A i \in 1 .. Len(out) :
               /\ out[i].cid.t = "int"
               /\ PyInRange(data_source, out[i].cid.v)
               /\ GetContainerName(out[i].cid.v) = PyStr(out[i].doc.name)
               /\ PyGet(data_source, out[i].cid.v) = out[i].doc
        /\ (query # NoQuery /\ ~ipcr.eof) =>
               out[Len(out)].cid = PyInt(XMLChunkCursorRowid(patents.files_cursor))

\* a child row of the third container, in a scan that began at the first
C10_Witness ==
    /\ kind = "child" /\ fault = "none" /\ FullScan
    /\ N = 3 /\ Len(out) >= 2
    /\ out[1].doc = data_source[1]
    /\ out[Len(out)].doc = data_source[3]
    /\ out[Len(out)].cid = PyInt(2)

\* ====================================================== row-id packing
ParentIds == 0 .. MaxParent
ElementIndexes == 0 .. 2 ^ RESERVED_BITS - 1

InitPack ==
    /\ data_source = <<>>
    /\ InitCommon
    /\ shared = NoShared
    /\ zip_files = NoZipFiles
    /\ csv_cursor = NoCsvCursor
    /\ pop = NoPop
    /\ \E p1 \in ParentIds, c1 \in ElementIndexes, p2 \in ParentIds :
       \E c2 \in {0, c1, 2 ^ RESERVED_BITS - 1} :
           pack = [a |-> <<p1, c1>>, b |-> <<p2, c2>>, ra |-> 0 - 1,
                   rb |-> 0 - 1, done |-> FALSE]

\* PatentsIpcrCurcor.Rowid on two (parent row id, element index) pairs
PackRowids ==
    /\ ~pack.done
    /\ pack' = [pack EXCEPT !.ra = PackRowid(pack.a[1], pack.a[2]),
                            !.rb = PackRowid(pack.b[1], pack.b[2]),
                            !.done = TRUE]
    /\ UNCHANGED <<zip_files, csv_cursor, data_source, cached_id, cached_data,
                   parse_counter, allocs, kind, patents, ipcr, query, fault,
                   out, calls, pop, shared>>

NextPack == PackRowids

PackSpec == InitPack /\ [][NextPack]_vars

\* C9: for a parent row id p >= 0 and an element index 0 <= c < 2^14, the
\* packed id r = (p << 14) | c gives back p as r >> 14 and c as
\* r & (2^14 - 1), and two different pairs are packed to different ids.
C9_PackingRoundTrip ==
    pack.done =>
        /\ ShiftRight(pack.ra, RESERVED_BITS) = pack.a[1]
        /\ BitAnd(pack.ra, 2 ^ RESERVED_BITS - 1) = pack.a[2]
        /\ ShiftRight(pack.rb, RESERVED_BITS) = pack.b[1]
        /\ BitAnd(pack.rb, 2 ^ RESERVED_BITS - 1) = pack.b[2]
        /\ pack.a # pack.b => pack.ra # pack.rb

\* the largest element index of parent 1 and the smallest of parent 2
C9_Witness ==
    /\ pack.done
    /\ pack.a = <<1, 2 ^ RESERVED_BITS - 1>>
    /\ pack.b = <<2, 0>>
    /\ pack.rb = pack.ra + 1

\* ===================================================== container discovery
\* ZipFiles.__init__ run on a directory listing.  The first loop is one
\* step; the second loop takes one step per accepted archive, which is
\* opened and read in that step.
Directories == UNION {[1 .. n -> BOOLEAN] : n \in 0 .. MaxEntries}
MemberCounts == 0 .. 2

InitDiscovery ==
    /\ data_source = <<>>
    /\ InitCommon
    /\ shared = NoShared
    /\ pack = NoPack
    /\ pop = NoPop
    /\ csv_cursor = NoCsvCursor
    /\ \E dir \in Directories : \E sample \in SUBSET (1 .. Len(dir)) :
           zip_files = [NoZipFiles EXCEPT !.dir = dir, !.sample = sample,
                                          !.phase = "new"]

\* ZipFiles.__init__, lines 69-87
ZipFilesInit ==
    /\ zip_files.phase = "new"
    /\ LET file_path == ListDirectory(zip_files.dir, zip_files.sample)
       IN  zip_files' =
               [zip_files EXCEPT
                    !.file_path = file_path,
                    !.phase = IF Len(file_path) = 0 THEN "done" ELSE "read"]
    /\ UNCHANGED <<data_source, cached_id, cached_data, parse_counter, allocs,
                   kind, patents, ipcr, query, fault, out, calls, pack, pop,
                   csv_cursor, shared>>

\* ZipFiles.__init__, lines 90-118, for the next path of file_path
ZipFilesReadArchive(members, text) ==
    /\ zip_files.phase = "read"
    /\ LET path == zip_files.file_path[zip_files.read + 1]
           z == ReadArchive(
                    [zip_files EXCEPT
                         !.read = @ + 1,
                         !.fragments =
                             IF members = 1 THEN @ + NonEmptyFragments(text)
                             ELSE @,
                         !.bad = @ \/ BadArchive(members, text)],
                    path, members, text)
       IN  zip_files' =
               [z EXCEPT !.phase = IF z.fault # "none" THEN "failed"
                                   ELSE IF z.read = Len(z.file_path)
                                   THEN "done" ELSE "read"]
    /\ UNCHANGED <<data_source, cached_id, cached_data, parse_counter, allocs,
                   kind, patents, ipcr, query, fault, out, calls, pack, pop,
                   csv_cursor, shared>>

NextDiscovery ==
    \/ ZipFilesInit
    \/ \E members \in MemberCounts : \E text \in Texts :
           ZipFilesReadArchive(members, text)

DiscoverySpec == InitDiscovery /\ [][NextDiscovery]_vars

\* ZipFiles.get_xml_files_array, of a constructed object
GetXmlFilesArray == zip_files.unique_patent_xml_files

\* C11: the sampling predicate is applied while the directory is listed:
\* every container of the list, complete or under construction, is a slice
\* of a regular file that the predicate accepted, so a container of a
\* rejected archive is in no list a cursor can index.
C11_SamplingExclusion ==
    /\ \A i \in 1 .. Len(zip_files.file_path) :
           /\ zip_files.file_path[i] \in zip_files.sample
           /\ zip_files.dir[zip_files.file_path[i]]
    /\ \A i \in 1 .. Len(GetXmlFilesArray) :
           GetXmlFilesArray[i].src \in zip_files.sample

\* discovery has finished with containers although a regular file of the
\* directory was rejected by the predicate
C11_Witness ==
    /\ zip_files.phase = "done"
    /\ Len(GetXmlFilesArray) >= 1
    /\ \E path \in 1 .. Len(zip_files.dir) :
           zip_files.dir[path] /\ path \notin zip_files.sample

\* the set of the names in patent_file_name
ContainerNames ==
    {zip_files.patent_file_name[i] :
         i \in 1 .. Len(zip_files.patent_file_name)}

\* C12 as stated: after a successful discovery the number of distinct
\* container names equals the number of non-empty fragments of the
\* accepted archives' texts.
C12_DistinctNamesCount ==
    zip_files.phase = "done"
        => Cardinality(ContainerNames) = zip_files.fragments

\* C12: after a successful discovery the container list and the list of
\* container names both have one entry per non-empty fragment of the
\* accepted archives' texts, in the same order; a name occurs as often as
\* fragments carry it.
C12_ContainerCount ==
    zip_files.phase = "done"
        => /\ Len(zip_files.patent_file_name) = zip_files.fragments
           /\ Len(GetXmlFilesArray) = zip_files.fragments

\* a successful discovery of three fragments, two of which carry one name
C12_Witness ==
    /\ zip_files.phase = "done"
    /\ zip_files.fragments = 3
    /\ Len(zip_files.patent_file_name) = 3
    /\ Cardinality(ContainerNames) = 2

\* ======================================================= flat-file cursor
\* The engine positions and advances one CsvCursor over one file; seen is
\* the list of the rows it reads, one after each call that leaves the
\* cursor not at Eof, restarted by every Filter.
InitCsv ==
    /\ data_source = <<>>
    /\ InitCommon
    /\ shared = NoShared
    /\ pack = NoPack
    /\ pop = NoPop
    /\ zip_files = NoZipFiles
    /\ \E file \in CsvFiles :
           csv_cursor = [NoCsvCursor EXCEPT !.file = file]

\* the row the engine reads from a cursor that is not at Eof: Rowid(), the
\* record and the record's position in the file (the header is at 0)
CsvRow(cur) ==
    [rowid |-> CsvCursorRowid(cur), row_value |-> cur.row_value.items,
     at |-> cur.reader.at - 1]

\* Filter rebinds raw_input and reader (csv_sources.py:111-112) without
\* closing the handle they held: that handle is unreferenced from then on,
\* and whether the runtime has finalised (closed) it is not determined by
\* the code
CsvFilter ==
    /\ Len(csv_cursor.handles) < MaxHandles
    /\ \E finalised \in BOOLEAN :
           LET old == csv_cursor.cur.raw_input
               opened == OpenHandle(csv_cursor.handles)
               cur == CsvCursorFilter(csv_cursor.cur, csv_cursor.file,
                                      Len(opened))
           IN  csv_cursor' =
                   [csv_cursor EXCEPT
                        !.cur = cur,
                        !.seen = IF cur.eof THEN <<>> ELSE <<CsvRow(cur)>>,
                        !.handles = IF finalised /\ old # NoneInt
                                    THEN CloseHandle(opened, old)
                                    ELSE opened]
    /\ UNCHANGED <<data_source, cached_id, cached_data, parse_counter, allocs,
                   kind, patents, ipcr, query, fault, out, calls, pack, pop,
                   zip_files, shared>>

\* next(self.reader, None) reads raw_input unless the reader has already
\* returned None: the decoding generator under it is then finished and the
\* handle is not touched again. A read of a closed raw_input raises
\* ValueError before row_value is assigned
CsvNext ==
    /\ ~csv_cursor.cur.reader.none
    /\ IF \/ csv_cursor.handles[csv_cursor.cur.raw_input] = "open"
          \/ csv_cursor.cur.row_value.none
       THEN /\ LET cur == CsvCursorNext(csv_cursor.cur, csv_cursor.file)
               IN  csv_cursor' =
                       [csv_cursor EXCEPT
                            !.cur = cur,
                            !.seen = IF cur.eof THEN @
                                     ELSE Append(@, CsvRow(cur))]
            /\ UNCHANGED fault
       ELSE /\ fault' = "ValueError"
            /\ UNCHANGED csv_cursor
    /\ UNCHANGED <<data_source, cached_id, cached_data, parse_counter, allocs,
                   kind, patents, ipcr, query, out, calls, pack, pop,
                   zip_files, shared>>

NextCsv == CsvFilter \/ CsvNext

CsvSpec == InitCsv /\ [][NextCsv]_vars

\* number of records that follow the header line
RecordsAfterHeader ==
    IF Len(csv_cursor.file) = 0 THEN 0 ELSE Len(csv_cursor.file) - 1

\* C13: once positioned, the flat-file cursor is at Eof exactly when the
\* reader has signalled the end of input (its last read returned None),
\* the rows exposed are the records that follow the one header line, in
\* order, and at Eof every one of them has been exposed.
C13_FlatSourceEndOfInput ==
    ~csv_cursor.cur.reader.none
        => /\ csv_cursor.cur.eof <=> csv_cursor.cur.row_value.none
           /\ \A i \in 1 .. Len(csv_cursor.seen) : csv_cursor.seen[i].at = i
           /\ csv_cursor.cur.eof
                  => Len(csv_cursor.seen) = RecordsAfterHeader

\* C14: the i-th row the flat-file cursor exposes after a Filter, counted
\* from 0, has row id i; a Filter leaves the row id at 0 on a first row and
\* at -1 at Eof, an advance onto a row adds one to it, and an advance that
\* takes the cursor to Eof leaves it as it was.
C14_State ==
    \A i \in 1 .. Len(csv_cursor.seen) : csv_cursor.seen[i].rowid = i - 1
C14_Step ==
    /\ CsvFilter
           => csv_cursor'.cur.item_index =
                  (IF csv_cursor'.cur.eof THEN 0 - 1 ELSE 0)
    /\ (CsvNext /\ ~csv_cursor.cur.eof)
           => csv_cursor'.cur.item_index =
                  (IF csv_cursor'.cur.eof THEN csv_cursor.cur.item_index
                   ELSE csv_cursor.cur.item_index + 1)
C14_FlatSourceRowIds == []C14_State /\ [][C14_Step]_vars

\* two rows were exposed, with ids 0 and 1, and the advance after them has
\* reached Eof with the row id still 1
C14_Witness ==
    /\ Len(csv_cursor.seen) = 2
    /\ csv_cursor.seen[1].rowid = 0
    /\ csv_cursor.seen[2].rowid = 1
    /\ csv_cursor.cur.eof
    /\ csv_cursor.cur.row_value.none
    /\ csv_cursor.cur.item_index = 1

\* ============================================== cursor claims, continued
\* the query pins an index that lies past the end of the container list
PinnedPastTheEnd ==
    /\ query # NoQuery
    /\ HasBit(query.index_number, CONTAINER_INDEX)
    /\ query.constraint_args[1] >= N

\* C15: a position that pins a container index past the end of the list
\* ends in a reported fault, never in a silent move to Exhausted.
C15_PastTheEndIsAFault ==
    (kind \in {"root", "child"} /\ PinnedPastTheEnd) => fault # "none"

\* the constructor has returned a ZipFiles object
Constructed == zip_files.phase = "done"
\* the constructor was left by an exception
Failed == zip_files.phase = "failed"

\* C16: as soon as an accepted archive with no or several XML members, or
\* with a non-empty fragment that lacks the file attribute, has been read,
\* the constructor is left by an exception (ValueError or AttributeError)
\* and no ZipFiles object exists; an object that is constructed has read
\* only good archives and holds every non-empty fragment of them.
C16_DiscoveryFaultsAreFatal ==
    /\ zip_files.bad
           => /\ Failed
              /\ ~Constructed
              /\ zip_files.fault \in {"ValueError", "AttributeError"}
    /\ Constructed
           => /\ ~zip_files.bad
              /\ zip_files.fault = "none"
              /\ zip_files.read = Len(zip_files.file_path)
              /\ Len(GetXmlFilesArray) = zip_files.fragments

\* the second accepted archive has a fragment without the attribute: the
\* constructor failed while its lists held the first archive's container
C16_Witness ==
    /\ Failed
    /\ zip_files.bad
    /\ zip_files.fault = "AttributeError"
    /\ zip_files.read = 2
    /\ Len(zip_files.unique_patent_xml_files) >= 1

\* ======================================================= closing a cursor
\* One root cursor is created, positioned and advanced as in Spec, and
\* closed in whatever state it is in; a closed cursor is not used again.
Closed == kind = "closed"

OpenRoot == kind = "none" /\ Open("root")

RootClose ==
    /\ kind = "root"
    /\ kind' = "closed"
    /\ patents' = PatentsCursorClose(patents)
    /\ UNCHANGED <<data_source, cached_id, cached_data, parse_counter, allocs,
                   ipcr, query, fault, out, calls, pack, pop, zip_files,
                   csv_cursor, shared>>

NextClose ==
    \/ OpenRoot
    \/ \E index_number \in IndexNumbers :
           \E constraint_args \in ConstraintArgs(index_number) :
               RootFilter(index_number, constraint_args)
    \/ RootNext
    \/ RootClose

CloseSpec == Init /\ [][NextClose]_vars

\* C17 as stated: after Close no document that the cursor caused to be
\* parsed is resident, neither in the cursor nor in the cache slot.
C17_ReleaseOnClose ==
    Closed => /\ patents.files_cursor.element_tree = NoneTree
              /\ cached_data = NoneTree
              /\ cached_id = NoneInt

\* C17: Close, in any state of the cursor, drops the cursor's own reference
\* to the parsed document and leaves the cache as it is: the slot still
\* holds the document parsed last and its container index.
C17_State ==
    Closed => /\ patents.files_cursor.element_tree = NoneTree
              /\ parse_counter > 0
                     => /\ cached_data.inst = allocs
                        /\ cached_data # NoneTree
                        /\ cached_id # NoneInt
C17_Step ==
    RootClose => UNCHANGED <<cached_id, cached_data, parse_counter, allocs>>
C17_CloseReleasesOwnReference == []C17_State /\ [][C17_Step]_vars

\* a cursor was closed while on container 1 of a full scan: its reference
\* is gone and the cache still holds the document of container 1
C17_Witness ==
    /\ Closed
    /\ FullScan
    /\ Len(out) = 2
    /\ patents.files_cursor.file_index = 1
    /\ ~patents.files_cursor.eof
    /\ patents.files_cursor.element_tree = NoneTree
    /\ cached_id = 1
    /\ cached_data.root = data_source[2]

\* the root cursor's container cursor is on container k
OnContainer(fc, k) ==
    /\ ~fc.eof
    /\ XMLChunkCursorRowid(fc) = k
    /\ fc.element_tree.root = data_source[k + 1]

\* C18 as stated: the first advance after a single-container position
\* lands the container cursor on the pinned container (and only the
\* second one exhausts it).  The first advance is the Next taken while the
\* cursor is not yet exhausted.
C18_FirstAdvanceLands ==
    [][\A k \in 0 .. N - 1 :
           (RootNext /\ Pinned(k) /\ ~patents.files_cursor.eof)
               => OnContainer(patents'.files_cursor, k)]_vars

\* C18: a single-container position lands the container cursor on the
\* pinned container itself, by the call of Next that Filter makes after
\* setting the index to k - 1; the first advance after the position finds
\* file_read set and makes the cursor Exhausted, with the index still k and
\* without a parse.
C18_Step ==
    \A k \in 0 .. N - 1 :
        /\ (Pinned(k)'
                /\ RootFilter(query'.index_number, query'.constraint_args))
               => /\ OnContainer(patents'.files_cursor, k)
                  /\ patents'.files_cursor.file_read = "True"
                  /\ patents'.files_cursor =
                         XMLChunkCursorNext(
                             XMLChunkCursorSetup(patents.files_cursor,
                                                 query'.index_number,
                                                 query'.constraint_args),
                             Cache).cur
        /\ (RootNext /\ Pinned(k) /\ OnContainer(patents.files_cursor, k))
               => /\ patents'.files_cursor.eof
                  /\ XMLChunkCursorRowid(patents'.files_cursor) = k
                  /\ parse_counter' = parse_counter
C18_SingleContainerSteps == [][C18_Step]_vars

\* container 2 of three was pinned and the one advance after the position
\* has exhausted the cursor
C18_Witness ==
    /\ kind = "root" /\ fault = "none" /\ N = 3 /\ Pinned(2)
    /\ patents.files_cursor.eof
    /\ XMLChunkCursorRowid(patents.files_cursor) = 2
    /\ patents.files_cursor.file_read = "True"
    /\ parse_counter = 1

\* C19: after every position or advance of the child cursor that leaves it
\* not at Eof, the parent cursor is not exhausted, the element list is the
\* non-empty list extracted from the document the parent is on, and
\* element_index is an index of that list; no row was exposed with the
\* unset index -1.
C19_ChildRowValidity ==
    (kind = "child" /\ fault = "none" /\ query # NoQuery /\ ~ipcr.eof) =>
        /\ ~PatentsCursorEof(patents)
        /\ ~patents.files_cursor.eof
        /\ ~NotElements(ipcr.elements)
        /\ ipcr.elements =
               ExtractMultiple(PatentsCursorCurrentRowValue(patents))
        /\ 0 <= ipcr.element_index
        /\ ipcr.element_index < Len(ipcr.elements.items)
        /\ Len(out) >= 1
        /\ \A i \in 1 .. Len(out) : out[i].idx >= 0 /\ out[i].pos = out[i].idx

\* the child cursor is on the second element of container 2, after
\* containers 0 and 1 gave one element and none
C19_Witness ==
    /\ kind = "child" /\ fault = "none" /\ FullScan /\ ~ipcr.eof
    /\ N = 3
    /\ data_source[1].kids = 1 /\ data_source[2].kids = 0
    /\ data_source[3].kids = 2
    /\ XMLChunkCursorRowid(patents.files_cursor) = 2
    /\ ipcr.element_index = 1
    /\ Len(out) = 3

\* the query is a full scan or carries the container-constraint bit with
\* any pinned value, one outside 0 .. N - 1 included
FullScanOrSingleContainer ==
    /\ query # NoQuery
    /\ FullScan \/ HasBit(query.index_number, CONTAINER_INDEX)

\* C20: in a full scan and in every single-container query, the foreign-key
\* column of every row the child cursor exposes is the ordinal index of the
\* container whose document holds the row's element, whatever the parent's
\* Rowid() returns.
C20_ForeignKeyTracksContainer ==
    (kind = "child" /\ fault = "none" /\ FullScanOrSingleContainer) =>
        /\ \A i \in 1 .. Len(out) :
               /\ IsContainer(out[i].doc)
               /\ out[i].cid = PyInt(OrdinalOf(out[i].doc))
        /\ ~ipcr.eof =>
               /\ PatentsIpcrCurcorColumn2(ipcr, patents) =
                      PyInt(OrdinalOf(ElementsCursorCurrentRowValue(ipcr).of))
               /\ ElementsCursorCurrentRowValue(ipcr).of =
                      PatentsCursorCurrentRowValue(patents).root

\* the same property with the pinned value restricted to the indices of the
\* list, 0 <= k < N
C20_ForeignKeyOnListContainers ==
    (kind = "child" /\ fault = "none"
        /\ (FullScan \/ \E k \in 0 .. N - 1 : Pinned(k))) =>
        /\ \A i \in 1 .. Len(out) :
               /\ IsContainer(out[i].doc)
               /\ out[i].cid = PyInt(OrdinalOf(out[i].doc))
        /\ ~ipcr.eof =>
               /\ PatentsIpcrCurcorColumn2(ipcr, patents) =
                      PyInt(OrdinalOf(ElementsCursorCurrentRowValue(ipcr).of))
               /\ ElementsCursorCurrentRowValue(ipcr).of =
                      PatentsCursorCurrentRowValue(patents).root

\* the child cursor, in a full scan or pinned to container 2, is on a row
\* of container 2: its foreign key is 2 while the parent's row id is 0
C20_Witness ==
    /\ kind = "child" /\ fault = "none" /\ ~ipcr.eof
    /\ N = 3
    /\ FullScan \/ Pinned(2)
    /\ ElementsCursorCurrentRowValue(ipcr).of = data_source[3]
    /\ PatentsIpcrCurcorColumn2(ipcr, patents) = PyInt(2)
    /\ PatentsCursorRowid(patents) = 0

\* C21: after every position or advance that returns, of a root cursor
\* driven by the engine or by the child cursor wrapped around it, the root
\* cursor's Eof() is true exactly when its container cursor is exhausted.
C21_RootEofMirrorsContainerCursor ==
    (kind \in {"root", "child"} /\ fault = "none" /\ query # NoQuery) =>
        (PatentsCursorEof(patents) <=> patents.files_cursor.eof)

\* a child cursor has advanced its parent over all three containers: the
\* parent reports Eof and its container cursor is exhausted
C21_Witness ==
    /\ kind = "child" /\ fault = "none" /\ FullScan /\ N = 3
    /\ Len(out) >= 1
    /\ ipcr.eof
    /\ PatentsCursorEof(patents)
    /\ patents.files_cursor.eof
    /\ parse_counter = 3

\* C22: a child cursor positioned with a pinned index k of the list exposes
\* the elements of container k and nothing else: the i-th row read is
\* element i - 1 of container k's document, the cursor is at Eof exactly
\* when all c_k of them (none when c_k = 0) have been read, and the only
\* container read and parsed is k.
C22_ChildSingleContainer ==
    \A k \in 0 .. N - 1 :
        (kind = "child" /\ fault = "none" /\ Pinned(k)) =>
            /\ \A i \in 1 .. Len(out) :
                   /\ out[i].doc = data_source[k + 1]
                   /\ out[i].idx = i - 1
                   /\ out[i].pos = i - 1
            /\ Len(out) <= data_source[k + 1].kids
            /\ ipcr.eof <=> ~(Len(out) >= 1 /\ ipcr.element_index = Len(out) - 1
                                /\ ~PatentsCursorEof(patents))
            /\ ipcr.eof => Len(out) = data_source[k + 1].kids
            /\ XMLChunkCursorRowid(patents.files_cursor) = k
            /\ cached_id = k
            /\ cached_data.root = data_source[k + 1]

\* container 1 of three holds two elements and container 2 holds some: the
\* child cursor pinned to 1 has exposed elements 0 and 1 and is at Eof
C22_Witness ==
    /\ kind = "child" /\ fault = "none" /\ N = 3 /\ Pinned(1)
    /\ data_source[2].kids = 2 /\ data_source[3].kids >= 1
    /\ ipcr.eof
    /\ Len(out) = 2
    /\ out[2].idx = 1

\* the container cursor is on a container of the list
OnListContainer(fc) ==
    /\ ~fc.eof
    /\ 0 <= fc.file_index /\ fc.file_index < N
    /\ OnContainer(fc, fc.file_index)

\* C23: a position of the root cursor with any index hint (a pinned index,
\* if there is one, not negative), in any prior state, returns with the
\* container cursor on a container of the list or Exhausted, and with the
\* mode, container index and Eof flag that the same call gives on a cursor
\* that was never positioned before.
C23_PositionReinitialises ==
    [][query' # NoQuery
           /\ RootFilter(query'.index_number, query'.constraint_args)
           /\ (HasBit(query'.index_number, CONTAINER_INDEX)
                   => query'.constraint_args[1] >= 0)
       => LET fresh == XMLChunkCursorFilter(XMLChunkCursorInit, Cache,
                                            query'.index_number,
                                            query'.constraint_args)
              fc == patents'.files_cursor
          IN  /\ fault' = "none"
              /\ fresh.fault = "none"
              /\ fc.eof \/ OnListContainer(fc)
              /\ fc.single_file = fresh.cur.single_file
              /\ fc.file_index = fresh.cur.file_index
              /\ fc.eof = fresh.cur.eof]_vars

\* ============================================ two data sources, one cache
\* Two data sources are open in one process, each with a container cursor
\* of its own; the engine positions and advances the two cursors in any
\* order.  Both read through get_file_cache(), the module's one FileCache.
SharedLists ==
    UNION {[1 .. n -> [name : {Names[1], Names[2]}, kids : {0}]]
           : n \in 0 .. MaxShared}
SharedHints == {0, CONTAINER_INDEX}
SharedArgs(index_number) ==
    IF index_number = 0 THEN {<<>>} ELSE {<<k>> : k \in 0 .. MaxShared}

InitShared ==
    /\ data_source = <<>>
    /\ InitCommon
    /\ pack = NoPack
    /\ pop = NoPop
    /\ zip_files = NoZipFiles
    /\ csv_cursor = NoCsvCursor
    /\ \E a \in SharedLists : \E b \in SharedLists :
           shared = [NoShared EXCEPT !.sources = <<a, b>>]

SharedStep(i, r) ==
    /\ r.cache.parse_counter <= MaxParses
    /\ shared' = [shared EXCEPT !.cursors[i] = r.cur, !.positioned[i] = TRUE]
    /\ SetCache(r.cache)
    /\ fault' = r.fault
    /\ UNCHANGED <<data_source, kind, patents, ipcr, query, out, calls, pack,
                   pop, zip_files, csv_cursor>>

\* XMLChunkCursor.Filter on the cursor of data source i
SharedFilter(i, index_number, constraint_args) ==
    /\ fault = "none"
    /\ SharedStep(i, XMLChunkCursorFilterOn(shared.sources[i],
                                            shared.cursors[i], Cache,
                                            index_number, constraint_args))

\* XMLChunkCursor.Next on the cursor of data source i
SharedNext(i) ==
    /\ fault = "none"
    /\ shared.positioned[i]
    /\ SharedStep(i, XMLChunkCursorNextOn(shared.sources[i],
                                          shared.cursors[i], Cache))

NextShared ==
    \E i \in {1, 2} :
        \/ \E n \in SharedHints : \E a \in SharedArgs(n) : SharedFilter(i, n, a)
        \/ SharedNext(i)

SharedSpec == InitShared /\ [][NextShared]_vars

\* C24: whenever a positioned container cursor is on container i, its
\* element_tree is the parse of container i of its own table's list, for
\* every interleaving of the calls of two cursors over two container lists
\* that read through the one process-wide cache.
C24_DocumentMatchesContainer ==
    \A i \in {1, 2} :
        (shared.positioned[i] /\ ~shared.cursors[i].eof) =>
            /\ PyInRange(shared.sources[i], shared.cursors[i].file_index)
            /\ shared.cursors[i].element_tree.root =
                   PyGet(shared.sources[i], shared.cursors[i].file_index)

\* the child cursor is on an element of a non-empty list
OnElement(ch) ==
    /\ ~ch.eof
    /\ ~NotElements(ch.elements)
    /\ 0 <= ch.element_index
    /\ ch.element_index < Len(ch.elements.items)

\* C25: in every state a positioned child cursor can be in, a call of its
\* Next returns, without an exception, after at most N + 1 calls of the
\* parent's Next, on an element or at Eof; so does the call of Next that a
\* full-scan position makes after positioning the parent.
C25_ChildAdvanceTerminates ==
    (kind = "child" /\ fault = "none" /\ query # NoQuery) =>
        /\ ParentAdvances(ipcr, patents, Cache) <= N + 1
        /\ LET r == PatentsElementsCursorNext(ipcr, patents, Cache)
           IN  /\ r.fault = "none"
               /\ r.cur.eof \/ OnElement(r.cur)
        /\ LET f == PatentsCursorFilter(patents, Cache, 0, <<>>)
               ch == [ipcr EXCEPT !.elements = NoneList]
           IN  /\ f.fault = "none"
               /\ ParentAdvances(ch, f.cur, f.cache) <= N + 1
               /\ LET r == PatentsElementsCursorNext(ch, f.cur, f.cache)
                  IN  r.fault = "none" /\ (r.cur.eof \/ OnElement(r.cur))

\* container 0 of three holds one element and the others none: the one
\* advance after the first row went through containers 1 and 2 to Eof
C25_Witness ==
    /\ kind = "child" /\ fault = "none" /\ FullScan /\ N = 3
    /\ data_source[1].kids = 1
    /\ data_source[2].kids = 0 /\ data_source[3].kids = 0
    /\ Len(out) = 1
    /\ ipcr.eof
    /\ parse_counter = 3
    /\ PatentsCursorEof(patents)

\* C26: a Next of the flat-file cursor that starts at Eof leaves the cursor
\* at Eof, exposes no row and leaves its row id as it was.
C26_ExhaustionIsAbsorbing ==
    [][(CsvNext /\ csv_cursor.cur.eof)
           => /\ csv_cursor'.cur.eof
              /\ csv_cursor'.seen = csv_cursor.seen
              /\ CsvCursorRowid(csv_cursor'.cur) =
                     CsvCursorRowid(csv_cursor.cur)]_vars

\* ------------------------------------------------------------------
\* CsvCursor with Close: Filter, Next and Close in any order; a call that
\* raised ends the run
\* ------------------------------------------------------------------
CsvClose ==
    /\ LET r == CsvCursorClose(csv_cursor.cur, csv_cursor.handles)
       IN  /\ csv_cursor' = [csv_cursor EXCEPT !.handles = r.handles]
           /\ fault' = r.fault
    /\ UNCHANGED <<data_source, cached_id, cached_data, parse_counter, allocs,
                   kind, patents, ipcr, query, out, calls, pack, pop,
                   zip_files, shared>>

NextCsvClose ==
    \/ fault = "none" /\ CsvFilter
    \/ fault = "none" /\ CsvNext
    \/ fault = "none" /\ CsvClose

CsvCloseSpec == InitCsv /\ [][NextCsvClose]_vars

\* C27: after every call at most one handle the cursor opened is open, and
\* a Close in any state, the never-positioned one included, raises nothing
\* and leaves no handle the cursor opened open.
C27_FlatSourceFileHandles ==
    [][/\ Cardinality(OpenHandles(csv_cursor'.handles)) <= 1
       /\ CsvClose => /\ fault' = "none"
                      /\ OpenHandles(csv_cursor'.handles) = {}]_vars

====
